---- MODULE Spec2Model ----
(***************************************************************************)
(* Conversational control plane of the Algo-Intent Telegram bot            *)
(* (src/telegram_bot.py, src/ai_intent.py): intent resolution, the         *)
(* per-user conversation state machine, the session and rate policy and    *)
(* the password-gated transaction confirmation protocol.                   *)
(*                                                                         *)
(* The wallet, ledger and language-understanding collaborators are not     *)
(* part of the program: each of their answers is an input of the message   *)
(* that calls them, drawn from the outcomes their interface allows.        *)
(***************************************************************************)
EXTENDS Integers, Sequences, FiniteSets, TLC

VARIABLES
    user_data,   \* context.user_data of every user (the conversation context)
    sessions,    \* content of telegram_sessions.json: user key -> session
    clock,       \* datetime.now(), in ticks
    submitted,   \* per user: successful send_transaction calls on the handle
                 \* the user's last build call returned
    last,        \* what the last handled message did
    probe,       \* the last direct call of a policy, parser or store function
    disk,        \* the files of the working directory, as load_sessions and
                 \* save_sessions leave them step by step
    running      \* the policy calls under way: where each one is and the
                 \* mapping it loaded

vars == <<user_data, sessions, clock, submitted, last, probe, disk, running>>

------------------------------------------------------------------------------
(* Program constants                                                       *)

MAX_PASSWORD_ATTEMPTS == 3
SESSION_TIMEOUT_HOURS == 24
MAX_TRANSACTIONS_PER_HOUR == 10
RATE_WINDOW_HOURS == 1
ADDRESS_LENGTH == 58
MAX_AMOUNT == 1000000
MNEMONIC_WORDS == 25
MIN_PASSWORD_LENGTH == 8
MAX_NFT_NAME_LENGTH == 50

(* Bounds of the model                                                     *)

TicksPerHour == 2   \* resolution of the clock
MaxClock == 2       \* time advances only while clock < MaxClock
MaxAddrLen == 59    \* longest address text tried on the transfer matcher
Chunks == 1         \* write calls one json.dump makes on the temporary file
MaxSecond == 1      \* int(time.time()) runs over 0..MaxSecond
MaxCorruptions == 2 \* times the canonical file is damaged from outside
MaxCalls == 4       \* policy calls started side by side
MaxAdmitted == 11   \* transfers are asked for while fewer have passed the check

Users == {"u1"}
Addresses == {"ADDR1"}

RateWindow == RATE_WINDOW_HOURS * TicksPerHour
SessionTimeout == SESSION_TIMEOUT_HOURS * TicksPerHour

------------------------------------------------------------------------------
(* Strings.  A character is a one-character string; a string is kept as   *)
(* its runs of equal characters, <<[c |-> "A", n |-> 58]>> being 58 times *)
(* "A", with adjacent runs of different characters.                        *)

Upper == {"A","B","C","D","E","F","G","H","I","J","K","L","M",
          "N","O","P","Q","R","S","T","U","V","W","X","Y","Z"}
Lower == {"a","b","c","d","e","f","g","h","i","j","k","l","m",
          "n","o","p","q","r","s","t","u","v","w","x","y","z"}
Base32Digits == {"2","3","4","5","6","7"}
Base32 == Upper \cup Base32Digits                \* [A-Z2-7]
Base32AnyCase == Upper \cup Lower \cup Base32Digits  \* [A-Z2-7] under (?i)

Run(c, n) == [c |-> c, n |-> n]
Rep(c, n) == IF n = 0 THEN << >> ELSE <<Run(c, n)>>

RECURSIVE StrLen(_)
StrLen(s) == IF s = << >> THEN 0 ELSE Head(s).n + StrLen(Tail(s))

\* s[:k]
RECURSIVE Prefix(_, _)
Prefix(s, k) ==
    IF s = << >> \/ k <= 0 THEN << >>
    ELSE IF Head(s).n >= k THEN <<Run(Head(s).c, k)>>
    ELSE <<Head(s)>> \o Prefix(Tail(s), k - Head(s).n)

\* every character of s is in the class
AllIn(s, class) == \A i \in 1..Len(s) : s[i].c \in class

NoAddress == << >>
ValidAddress == Rep("A", ADDRESS_LENGTH)
ShortAddress == <<Run("s", 1), Run("h", 1), Run("o", 1), Run("r", 1), Run("t", 1)>>

\* validate_algorand_address: a non-empty string of exactly 58 characters,
\* all of them in A-Z2-7 (re.match without IGNORECASE).
validate_algorand_address(address) ==
    /\ address # NoAddress
    /\ StrLen(address) = ADDRESS_LENGTH
    /\ AllIn(address, Base32)

------------------------------------------------------------------------------
(* Amounts.  A Python float is a number, nan or inf; every comparison     *)
(* with nan is false.                                                      *)

Num(v) == [kind |-> "num", v |-> v]
NaN == [kind |-> "nan", v |-> 0]
Inf == [kind |-> "inf", v |-> 0]
NoAmount == [kind |-> "absent", v |-> 0]

FloatLe(a, n) == a.kind = "num" /\ a.v <= n
FloatGt(a, n) == (a.kind = "num" /\ a.v > n) \/ a.kind = "inf"

\* amount <= 0 or amount > 1000000
amount_out_of_range(a) == FloatLe(a, 0) \/ FloatGt(a, MAX_AMOUNT)

\* The claims' range of an amount: 0 < amount <= 1_000_000.
AmountInRange(a) == a.kind = "num" /\ 0 < a.v /\ a.v <= MAX_AMOUNT

------------------------------------------------------------------------------
(* Session store and policy                                                *)

\* a new session is stamped with the start of time
Session_epoch(wallet_data, now) ==
    [address |-> wallet_data.address,
     encrypted_mnemonic |-> wallet_data.encrypted_mnemonic,
     created_at |-> now,
     last_activity |-> 0,
     recent_transactions |-> << >>]

Session(wallet_data, now) ==
    [address |-> wallet_data.address,
     encrypted_mnemonic |-> wallet_data.encrypted_mnemonic,
     created_at |-> now,            \* "created_at" or "connected_at"
     last_activity |-> now,
     recent_transactions |-> << >>] \* key absent: .get(..., [])

Put(ss, user_key, session) ==
    [k \in DOMAIN ss \cup {user_key} |-> IF k = user_key THEN session ELSE ss[k]]

Del(ss, user_key) == [k \in DOMAIN ss \ {user_key} |-> ss[k]]

\* tx_time > current_time - timedelta(hours=1)
\* an entry exactly one hour old is kept
InsideWindow_closed(tx_time, now) == tx_time >= now - RateWindow

InsideWindow(tx_time, now) == tx_time > now - RateWindow

Prune(recent_transactions, now) ==
    SelectSeq(recent_transactions, LAMBDA tx_time : InsideWindow(tx_time, now))

\* every action type is counted as a transaction
check_user_rate_limit_counts_all(ss, user_key, action_type, now) ==
    IF user_key \notin DOMAIN ss
    THEN [ok |-> TRUE, sessions |-> ss]
    ELSE LET recent_transactions == Prune(ss[user_key].recent_transactions, now)
         IN  IF Len(recent_transactions) >= MAX_TRANSACTIONS_PER_HOUR
             THEN [ok |-> FALSE, sessions |-> ss]
             ELSE [ok |-> TRUE,
                   sessions |-> [ss EXCEPT ![user_key].recent_transactions =
                                               Append(recent_transactions, now)]]

check_user_rate_limit(ss, user_key, action_type, now) ==
    IF user_key \notin DOMAIN ss
    THEN [ok |-> TRUE, sessions |-> ss]
    ELSE IF action_type = "transaction"
    THEN LET recent_transactions == Prune(ss[user_key].recent_transactions, now)
         IN  IF Len(recent_transactions) >= MAX_TRANSACTIONS_PER_HOUR
             THEN [ok |-> FALSE, sessions |-> ss]
             ELSE [ok |-> TRUE,
                   sessions |-> [ss EXCEPT ![user_key].recent_transactions =
                                               Append(recent_transactions, now)]]
    ELSE [ok |-> TRUE, sessions |-> ss]

\* a session exactly 24 hours idle is expired
Expired_at_limit(last_activity, now) == now - last_activity >= SessionTimeout

Expired(last_activity, now) == now - last_activity > SessionTimeout

\* a user without a session passes
validate_session_open(ss, user_key, now) ==
    IF user_key \notin DOMAIN ss
    THEN [ok |-> TRUE, sessions |-> ss]
    ELSE IF Expired(ss[user_key].last_activity, now)
    THEN [ok |-> FALSE, sessions |-> Del(ss, user_key)]
    ELSE [ok |-> TRUE, sessions |-> [ss EXCEPT ![user_key].last_activity = now]]

validate_session(ss, user_key, now) ==
    IF user_key \notin DOMAIN ss
    THEN [ok |-> FALSE, sessions |-> ss]
    ELSE IF Expired(ss[user_key].last_activity, now)
    THEN [ok |-> FALSE, sessions |-> Del(ss, user_key)]
    ELSE [ok |-> TRUE, sessions |-> [ss EXCEPT ![user_key].last_activity = now]]

------------------------------------------------------------------------------
(* Message texts.  A text is what sanitize_input leaves of the message:    *)
(* its shape against the matchers' patterns and the properties the state   *)
(* handlers read (length, letters, digits, words).                         *)

NoName == << >>
DragonName == <<Run("D", 1), Run("r", 1), Run("a", 1), Run("g", 1), Run("o", 1), Run("n", 1)>>

Text(shape, amount, address, name, len, letter, digit, words) ==
    [shape |-> shape, amount |-> amount, address |-> address, name |-> name,
     len |-> len, letter |-> letter, digit |-> digit, words |-> words]

NoText == Text("none", "", NoAddress, NoName, 0, FALSE, FALSE, 0)
\* a message that sanitize_input reduces to ""
BlankText == Text("blank", "", NoAddress, NoName, 0, FALSE, FALSE, 0)
\* "<send|transfer|pay> <amount> algo to <address>"
SendText(verb, amount, address) ==
    Text(verb, amount, address, NoName, 16 + StrLen(address), TRUE, TRUE, 5)
\* "create nft named <name>"
NftText(name) == Text("nft", "", NoAddress, name, 17 + StrLen(name), TRUE, FALSE, 4)
\* any other text
PlainText(len, letter, digit, words) ==
    Text("plain", "", NoAddress, NoName, len, letter, digit, words)

SendVerbs == {"send", "transfer", "pay"}

sanitize_input(text) == IF text.shape = "blank" THEN NoText ELSE text
IsEmpty(text) == text.shape = "none"

(* Parsed intents: None, or a dict.  A dict is falsy when it is empty.     *)

Params(amount, recipient, name) ==
    [amount |-> amount, recipient |-> recipient, name |-> name]
NoParams == Params(NoAmount, NoAddress, NoName)

None == [kind |-> "None", empty |-> TRUE, intent |-> "missing", parameters |-> NoParams]
EmptyDict == [kind |-> "dict", empty |-> TRUE, intent |-> "missing", parameters |-> NoParams]
\* a non-empty dict; intent "missing" when it has no 'intent' key
Dict(intent, parameters) ==
    [kind |-> "dict", empty |-> FALSE, intent |-> intent, parameters |-> parameters]

Falsy(parsed) == parsed.kind = "None" \/ parsed.empty

(* AIIntentParser.  The collaborator's reply is an error (the constructor  *)
(* or the call raised), or a text: without braces, with an undecodable     *)
(* text between the first '{' and the last '}', or with an object there.   *)

ReplyError == [kind |-> "error", object |-> None]
ReplyNoBraces == [kind |-> "no_braces", object |-> None]
ReplyUndecodable == [kind |-> "undecodable", object |-> None]
ReplyObject(object) == [kind |-> "object", object |-> object]

extract_json(reply) ==
    IF reply.kind = "object" THEN reply.object ELSE Dict("unknown", NoParams)

parse(reply) == IF reply.kind = "error" THEN None ELSE extract_json(reply)

(* float(amount_text) and utils.text_to_number on the amount texts tried.  *)

AmountTexts == {"5", "0", "1000000", "1000001", "nan", "inf", "five", "lots", "-1"}

\* [\d\.]{1,20}|\w+(?:\s+\w+)*
AmountPattern(amount_text) == amount_text \in AmountTexts \ {"-1"}

ValueError == [kind |-> "ValueError", v |-> 0]

float(amount_text) ==
    CASE amount_text = "5" -> Num(5)
      [] amount_text = "0" -> Num(0)
      [] amount_text = "1000000" -> Num(1000000)
      [] amount_text = "1000001" -> Num(1000001)
      [] amount_text = "nan" -> NaN
      [] amount_text = "inf" -> Inf
      [] OTHER -> ValueError

text_to_number(amount_text) ==
    IF amount_text = "five" THEN Num(5) ELSE NoAmount

\* (?P<address>[A-Z2-7]{58}) under (?i): the first 58 characters after
\* "to ", when each is a letter of either case or a digit 2-7.
AddressPattern(address_text) ==
    /\ StrLen(address_text) >= ADDRESS_LENGTH
    /\ AllIn(Prefix(address_text, ADDRESS_LENGTH), Base32AnyCase)

AddressGroup(address_text) == Prefix(address_text, ADDRESS_LENGTH)

SendPattern(text) ==
    /\ text.shape \in SendVerbs
    /\ AmountPattern(text.amount)
    /\ AddressPattern(text.address)

parse_nft_command_fallback(text) ==
    IF IsEmpty(sanitize_input(text)) THEN None
    ELSE IF text.shape = "nft" /\ text.name # NoName
    THEN Dict("create_nft", Params(NoAmount, NoAddress, text.name))
    ELSE None

parse_send_command_fallback(text) ==
    IF IsEmpty(sanitize_input(text)) THEN None
    ELSE IF ~SendPattern(text) THEN None
    ELSE LET address == AddressGroup(text.address)
             amount == float(text.amount)
             spelled == text_to_number(text.amount)
         IN  IF ~validate_algorand_address(address) THEN None
             ELSE IF amount # ValueError
             THEN IF amount_out_of_range(amount) THEN None
                  ELSE Dict("send_algo", Params(amount, address, NoName))
             ELSE IF spelled = NoAmount \/ amount_out_of_range(spelled) THEN None
                  ELSE Dict("send_algo", Params(spelled, address, NoName))

\* the fallback matchers run after any result of the first stage
Chain_fallback_always(reply, text) ==
    LET ai == parse(reply)
        nft == parse_nft_command_fallback(text)
        send == parse_send_command_fallback(text)
    IN  IF Falsy(nft)
        THEN [parsed |-> send, stages |-> <<"ai", "nft", "send">>]
        ELSE [parsed |-> nft, stages |-> <<"ai", "nft">>]

\* handle_message, lines 294-307: the ordered chain.  The result is the
\* parsed value and the stages that ran, in the order they ran.
Chain(reply, text) ==
    LET ai == parse(reply)
        nft == parse_nft_command_fallback(text)
        send == parse_send_command_fallback(text)
    IN  IF Falsy(ai) \/ ai.intent = "unknown"
        THEN IF Falsy(nft)
             THEN [parsed |-> send, stages |-> <<"ai", "nft", "send">>]
             ELSE [parsed |-> nft, stages |-> <<"ai", "nft">>]
        ELSE [parsed |-> ai, stages |-> <<"ai">>]

Resolve(reply, text) == Chain(reply, text).parsed

------------------------------------------------------------------------------
(* Unsigned-transaction handles.  A handle is opaque to the program; the   *)
(* model's handle names the build call that returned it: the user whose    *)
(* message made the call, the kind of transaction, and whether the call    *)
(* followed a passed session validation with a valid recipient and an      *)
(* amount in range.                                                        *)

Txn(kind, user, session_ok, recipient_ok, amount_ok) ==
    [kind |-> kind, user |-> user, session_ok |-> session_ok,
     recipient_ok |-> recipient_ok, amount_ok |-> amount_ok]

NoTxn == Txn("none", "none", FALSE, FALSE, FALSE)      \* no 'pending_txn' key
EmptyTxn == Txn("empty", "none", FALSE, FALSE, FALSE)  \* present and falsy

(* Conversation context: context.user_data of one user.  A key that is     *)
(* absent reads as "none", 0, NoTxn or NoText.                             *)

EmptyData ==
    [state |-> "none", failed_attempts |-> 0, pending_txn |-> NoTxn,
     transaction_type |-> "none", mnemonic |-> NoText]

(* What one message did.                                                   *)

Event(user) ==
    [user |-> user,
     handler |-> "none",       \* the state handler the message was handed to
     stages |-> << >>,         \* stages of the intent resolution chain that ran
     found |-> FALSE,          \* the chain ended with an intent
     ai |-> "none",            \* result of the language-understanding stage
     intent |-> "none",        \* intent dispatched
     calls |-> {},             \* wallet and ledger collaborator calls
     build |-> NoTxn,          \* the ledger build call made
     signed |-> NoTxn,         \* handle given to sign_transaction
     sign_ok |-> FALSE,        \* sign_transaction returned
     attempts_left |-> 0,      \* attempts reported as remaining
     raised |-> FALSE,         \* an exception left handle_message
     reply |-> "none"]

NoEvent == Event("none")

(* The state one message works on: w.data is the sender's user_data,       *)
(* w.submitted the sender's submission count.                              *)

Reply(w, text) == [w EXCEPT !.ev.reply = text]
Called(w, name) == [w EXCEPT !.ev.calls = @ \cup {name}]
Clear(w) == [w EXCEPT !.data = EmptyData]

WalletData(address) ==
    [address |-> address, encrypted_mnemonic |-> <<"encrypted", address>>]

------------------------------------------------------------------------------
(* Handlers.  `in` holds the message's text and the collaborators'         *)
(* answers: in.reply, in.build, in.sign, in.submit, in.wait, in.wallet,    *)
(* in.account.                                                             *)

\* lines 381-421
handle_wallet_creation_password(w, user_key, password, in, now) ==
    IF password.len < MIN_PASSWORD_LENGTH
    THEN Reply(w, "password_too_short")
    ELSE IF ~password.letter \/ ~password.digit
    THEN Reply(w, "password_needs_letters_and_numbers")
    ELSE IF in.wallet = "raise"
    THEN Clear(Reply(Called(w, "create_wallet"), "wallet_creation_failed"))
    ELSE Clear(Reply(
            [Called(w, "create_wallet") EXCEPT
                !.sessions = Put(w.sessions, user_key, Session(WalletData(in.wallet), now))],
            "wallet_created"))

\* lines 638-648
handle_mnemonic_input(w, mnemonic) ==
    IF mnemonic.words # MNEMONIC_WORDS
    THEN Reply(w, "invalid_mnemonic")
    ELSE Reply([w EXCEPT !.data.mnemonic = mnemonic,
                         !.data.state = "connecting_password"],
               "set_password")

\* a failed connection leaves IDLE with the scratch fields kept
handle_connection_password_keeps_mnemonic(w, user_key, password, in, now) ==
    IF in.wallet = "raise"
    THEN [Reply(Called(w, "connect_wallet"), "wallet_connection_failed") EXCEPT
             !.data.state = "none", !.data.failed_attempts = 0]
    ELSE Clear(Reply(
            [Called(w, "connect_wallet") EXCEPT
                !.sessions = Put(w.sessions, user_key, Session(WalletData(in.wallet), now))],
            "wallet_connected"))

\* lines 650-678
handle_connection_password(w, user_key, password, in, now) ==
    IF in.wallet = "raise"
    THEN Clear(Reply(Called(w, "connect_wallet"), "wallet_connection_failed"))
    ELSE Clear(Reply(
            [Called(w, "connect_wallet") EXCEPT
                !.sessions = Put(w.sessions, user_key, Session(WalletData(in.wallet), now))],
            "wallet_connected"))

\* the third failure ends the flow with the counter left as it is
SigningFailed_keeps_counter(w) ==
    LET failed_attempts == w.data.failed_attempts + 1
    IN  IF failed_attempts >= MAX_PASSWORD_ATTEMPTS
        THEN [Reply(Clear(w), "too_many_failed_attempts") EXCEPT
                 !.data.failed_attempts = failed_attempts]
        ELSE [Reply(w, "incorrect_password") EXCEPT
                 !.data.failed_attempts = failed_attempts,
                 !.ev.attempts_left = MAX_PASSWORD_ATTEMPTS - failed_attempts]

\* lines 528-539: the except branch of handle_transaction_password
SigningFailed(w) ==
    LET failed_attempts == w.data.failed_attempts + 1
    IN  IF failed_attempts >= MAX_PASSWORD_ATTEMPTS
        THEN Reply(Clear(w), "too_many_failed_attempts")
        ELSE [Reply(w, "incorrect_password") EXCEPT
                 !.data.failed_attempts = failed_attempts,
                 !.ev.attempts_left = MAX_PASSWORD_ATTEMPTS - failed_attempts]

\* lines 503-527: algod_client.send_transaction and what follows it
Submit(w, in) ==
    LET sent == [Called(w, "send_transaction") EXCEPT !.submitted = @ + 1]
    IN  IF ~in.submit
        THEN SigningFailed(Called(w, "send_transaction"))
        ELSE IF w.data.transaction_type = "nft"
        THEN IF ~in.wait
             THEN SigningFailed(Called(sent, "wait_for_confirmation"))
             ELSE Clear(Reply(Called(sent, "wait_for_confirmation"), "nft_created"))
        ELSE Clear(Reply(sent, "transaction_successful"))

\* lines 488-539
handle_transaction_password(w, password, in) ==
    LET pending_txn == w.data.pending_txn
    IN  IF pending_txn = NoTxn \/ pending_txn = EmptyTxn
        THEN Clear(Reply(w, "no_pending_transaction"))
        ELSE LET signing == [Called(w, "sign_transaction") EXCEPT
                                !.ev.signed = pending_txn]
             IN  IF ~in.sign
                 THEN SigningFailed(signing)
                 ELSE Submit([signing EXCEPT !.ev.sign_ok = TRUE], in)

\* lines 351-379
handle_conversation_state(w, user_key, text, in, now) ==
    LET state == w.data.state
        message_text == sanitize_input(text)
    IN  IF IsEmpty(message_text)
        THEN Reply(w, "invalid_input")
        ELSE IF w.data.failed_attempts >= MAX_PASSWORD_ATTEMPTS
        THEN Reply(Clear(w), "too_many_failed_attempts_start_over")
        ELSE LET h == [w EXCEPT !.ev.handler = state]
             IN  CASE state = "creating_wallet" ->
                        handle_wallet_creation_password(h, user_key, message_text, in, now)
                   [] state = "connecting_wallet" ->
                        handle_mnemonic_input(h, message_text)
                   [] state = "connecting_password" ->
                        handle_connection_password(h, user_key, message_text, in, now)
                   [] state = "transaction_password" ->
                        handle_transaction_password(h, message_text, in)
                   [] OTHER -> Reply(Clear(w), "invalid_state")

\* The ledger build call (build_and_send_transaction, create_nft) and
\* lines 465-486 / 574-596: what the handler does with its answer.
Build(w, txn, in) ==
    LET b == [Called(w, "build") EXCEPT !.ev.build = txn]
        failed == IF txn.kind = "nft" THEN "nft_creation_failed" ELSE "transaction_failed"
        pending == [b EXCEPT !.data.state = "transaction_password",
                             !.data.transaction_type = txn.kind]
    IN  CASE in.build = "raise" -> Reply(b, failed)
          [] in.build = "immediate" -> Reply(b, "completed")
          \* 'awaiting_approval' without an 'unsigned_txn' key: KeyError
          [] in.build = "awaiting_missing" -> Reply(b, failed)
          [] in.build = "awaiting_empty" ->
                Reply([pending EXCEPT !.data.pending_txn = EmptyTxn],
                      "confirmation_required")
          [] OTHER ->
                Reply([pending EXCEPT !.data.pending_txn = txn, !.submitted = 0],
                      "confirmation_required")

\* lines 423-486
handle_send_transaction(w, user_key, params, in, now) ==
    LET valid == validate_session(w.sessions, user_key, now)
        limit == check_user_rate_limit(valid.sessions, user_key, "transaction", now)
        w1 == [w EXCEPT !.sessions = limit.sessions]
    IN  IF ~valid.ok
        THEN Reply([w EXCEPT !.sessions = valid.sessions], "connect_wallet_first")
        ELSE IF ~limit.ok
        THEN Reply(w1, "transaction_rate_limit_exceeded")
        ELSE IF params.amount = NoAmount \/ params.recipient = NoAddress
        THEN Reply(w1, "missing_transaction_details")
        ELSE IF ~validate_algorand_address(params.recipient)
        THEN Reply(w1, "invalid_recipient")
        ELSE IF amount_out_of_range(params.amount)
        THEN Reply(w1, "invalid_amount")
        ELSE Build(w1, Txn("send", user_key, valid.ok,
                           validate_algorand_address(params.recipient),
                           AmountInRange(params.amount)), in)

\* lines 541-596
handle_nft_creation(w, user_key, params, in, now) ==
    LET valid == validate_session(w.sessions, user_key, now)
        w1 == [w EXCEPT !.sessions = valid.sessions]
    IN  IF ~valid.ok
        THEN Reply(w1, "connect_wallet_first")
        ELSE IF params.name = NoName
        THEN Reply(w1, "missing_nft_name")
        ELSE IF StrLen(params.name) < 1 \/ StrLen(params.name) > MAX_NFT_NAME_LENGTH
        THEN Reply(w1, "invalid_nft_name")
        ELSE Build(w1, Txn("nft", user_key, valid.ok, TRUE, TRUE), in)

\* lines 598-623
handle_balance_check(w, user_key, in, now) ==
    LET valid == validate_session(w.sessions, user_key, now)
        w1 == [w EXCEPT !.sessions = valid.sessions]
    IN  IF ~valid.ok
        THEN Reply(w1, "connect_wallet_first")
        ELSE IF in.account
        THEN Reply(Called(w1, "account_info"), "balance")
        ELSE Reply(Called(w1, "account_info"), "balance_check_failed")

\* lines 625-636
handle_disconnect(w, user_key) ==
    Reply(Clear([w EXCEPT !.sessions = Del(w.sessions, user_key)]),
          "wallet_disconnected")

\* lines 319-349
Dispatch(w, user_key, parsed, in, now) ==
    LET intent == parsed.intent
        params == parsed.parameters
        d == [w EXCEPT !.ev.intent = intent]
    IN  CASE intent = "missing" -> [w EXCEPT !.ev.raised = TRUE]   \* KeyError
          [] intent = "create_wallet" ->
                Reply([d EXCEPT !.data.state = "creating_wallet"], "set_password")
          [] intent = "connect_wallet" ->
                Reply([d EXCEPT !.data.state = "connecting_wallet"], "enter_mnemonic")
          [] intent = "send_algo" -> handle_send_transaction(d, user_key, params, in, now)
          [] intent = "create_nft" -> handle_nft_creation(d, user_key, params, in, now)
          [] intent = "disconnect" -> handle_disconnect(d, user_key)
          [] intent = "balance" -> handle_balance_check(d, user_key, in, now)
          [] OTHER -> Reply(w, "unsupported_action")

AiResult(ai) ==
    IF ai.kind = "None" THEN "None" ELSE IF ai.empty THEN "empty" ELSE ai.intent

\* the conversation state is looked at only when the chain found nothing
handle_message_resolves_first(w, user_key, in, now) ==
    LET user_input == sanitize_input(in.text)
        limit == check_user_rate_limit(w.sessions, user_key, "general", now)
        chain == Chain(in.reply, user_input)
        parsed == chain.parsed
        w1 == [w EXCEPT !.sessions = limit.sessions]
        w2 == [w1 EXCEPT !.ev.stages = chain.stages, !.ev.found = ~Falsy(parsed),
                         !.ev.ai = AiResult(parse(in.reply))]
    IN  IF IsEmpty(user_input)
        THEN Reply(w, "invalid_input")
        ELSE IF ~limit.ok
        THEN Reply(w1, "too_quickly")
        ELSE IF ~Falsy(parsed)
        THEN Dispatch(w2, user_key, parsed, in, now)
        ELSE IF w.data.state # "none"
        THEN handle_conversation_state(w1, user_key, in.text, in, now)
        ELSE Reply(w2, "not_understood")

\* lines 271-349
handle_message(w, user_key, in, now) ==
    LET user_input == sanitize_input(in.text)
        limit == check_user_rate_limit(w.sessions, user_key, "general", now)
        chain == Chain(in.reply, user_input)
        parsed == chain.parsed
        w1 == [w EXCEPT !.sessions = limit.sessions]
        w2 == [w1 EXCEPT !.ev.stages = chain.stages, !.ev.found = ~Falsy(parsed),
                         !.ev.ai = AiResult(parse(in.reply))]
    IN  IF IsEmpty(user_input)
        THEN Reply(w, "invalid_input")
        ELSE IF ~limit.ok
        THEN Reply(w1, "too_quickly")
        ELSE IF w.data.state # "none"
        THEN handle_conversation_state(w1, user_key, in.text, in, now)
        ELSE IF Falsy(parsed)
        THEN Reply(w2, "not_understood")
        ELSE Dispatch(w2, user_key, parsed, in, now)

------------------------------------------------------------------------------
(* Inputs of a message: its text and the answers of the collaborators it   *)
(* reaches.                                                                *)

In(text, reply, build, sign, submit, wait, wallet, account) ==
    [text |-> text, reply |-> reply, build |-> build, sign |-> sign,
     submit |-> submit, wait |-> wait, wallet |-> wallet, account |-> account]

OtherText == PlainText(9, TRUE, TRUE, 2)
WeakPassword == PlainText(5, TRUE, TRUE, 1)
LettersOnlyPassword == PlainText(9, TRUE, FALSE, 1)
MnemonicText == PlainText(150, TRUE, FALSE, MNEMONIC_WORDS)
LongAddress == Rep("A", MaxAddrLen)
LongName == Rep("x", MAX_NFT_NAME_LENGTH + 1)

IdleTexts ==
    {OtherText, NftText(DragonName),
     SendText("send", "5", ValidAddress), SendText("send", "nan", ValidAddress),
     SendText("pay", "5", ShortAddress), SendText("transfer", "0", ValidAddress)}

StateTexts ==
    {BlankText, OtherText, WeakPassword, LettersOnlyPassword, MnemonicText,
     SendText("send", "5", ValidAddress)}

\* replies after which the fallback matchers decide
FallbackReplies == {ReplyNoBraces, ReplyObject(EmptyDict)}

Replies ==
    {ReplyError, ReplyNoBraces, ReplyObject(EmptyDict)}
    \cup {ReplyObject(Dict(i, NoParams)) :
            i \in {"missing", "unknown", "create_wallet", "connect_wallet",
                   "disconnect", "balance", "swap"}}
    \cup {ReplyObject(Dict("send_algo", Params(a, ValidAddress, NoName))) :
            a \in {Num(5), NoAmount, Num(0), NaN}}
    \cup {ReplyObject(Dict("send_algo", Params(Num(5), ShortAddress, NoName)))}
    \cup {ReplyObject(Dict("create_nft", Params(NoAmount, NoAddress, n))) :
            n \in {DragonName, NoName, LongName}}

IdleCase(text, reply) ==
    [text |-> text, reply |-> reply, intent |-> Resolve(reply, sanitize_input(text)).intent]

\* The messages tried in IDLE: every text with the collaborator
\* unavailable, every reply with a text no matcher accepts, and a transfer
\* text with each reply the matchers take over from.
IdleCases ==
    {IdleCase(BlankText, ReplyError)}
    \cup {IdleCase(text, ReplyError) : text \in IdleTexts}
    \cup {IdleCase(OtherText, reply) : reply \in Replies}
    \cup {IdleCase(SendText("send", "5", ValidAddress), reply) : reply \in FallbackReplies}

BuildAnswers == {"raise", "immediate", "awaiting_missing", "awaiting_empty", "awaiting_approval"}
WalletAnswers == {"raise"} \cup Addresses
\* sign_transaction, send_transaction, wait_for_confirmation: each returns
\* or raises, and the call after one that raised is not made
SigningAnswers ==
    {[sign |-> FALSE, submit |-> FALSE, wait |-> FALSE],
     [sign |-> TRUE, submit |-> FALSE, wait |-> FALSE],
     [sign |-> TRUE, submit |-> TRUE, wait |-> FALSE],
     [sign |-> TRUE, submit |-> TRUE, wait |-> TRUE]}

------------------------------------------------------------------------------
(* The session file on disk.  A file's content is absent, the first n      *)
(* chunks of json.dump(mapping), or bytes that are no JSON text: those of  *)
(* two writers mixed (id 0) or the id-th damage done from outside.         *)

Absent == [kind |-> "absent", mapping |-> << >>, n |-> 0, id |-> 0]
Json(mapping, n) == [kind |-> "json", mapping |-> mapping, n |-> n, id |-> 0]
Garbage(id) == [kind |-> "garbage", mapping |-> << >>, n |-> 0, id |-> id]

\* json.load succeeds
Decodable(content) == content.kind = "json" /\ content.n = Chunks

\* Two handlers that save: each holds, while it saves, a descriptor on the
\* file it opened, which names the temporary file, the canonical file
\* (after a rename of the temporary file) or a file out of reach.
Savers == {"A", "B"}
IdleSaver == [pc |-> "idle", fd |-> "gone", n |-> 0]

\* the mapping each of them saves
SavedBy(p) ==
    IF p = "A" THEN Put(<< >>, "u1", Session(WalletData("ADDR1"), 0))
    ELSE Put(<< >>, "u2", Session(WalletData("ADDR1"), 0))

NoDisk ==
    [canon |-> Absent, tmp |-> Absent, backups |-> << >>, backed_up |-> {},
     second |-> 0, corruptions |-> 0, saver |-> [p \in Savers |-> IdleSaver]]

\* a descriptor follows its file when the file is renamed
Renamed(saver, from, to) ==
    [p \in Savers |->
        IF saver[p].fd = from THEN [saver[p] EXCEPT !.fd = to]
        ELSE IF saver[p].fd = to THEN [saver[p] EXCEPT !.fd = "gone"]
        ELSE saver[p]]

\* load_sessions, lines 159-173.  rename is what os.rename does when the
\* backup name is taken: "replaced" (POSIX) or "FileExistsError" (Windows).
load_sessions(d, rename) ==
    IF d.canon.kind = "absent"
    THEN [result |-> << >>, raised |-> FALSE, disk |-> d]
    ELSE IF Decodable(d.canon)
    THEN [result |-> d.canon.mapping, raised |-> FALSE, disk |-> d]
    ELSE LET backup_name == d.second
         IN  IF backup_name \in DOMAIN d.backups /\ rename = "FileExistsError"
             THEN [result |-> << >>, raised |-> TRUE, disk |-> d]
             ELSE [result |-> << >>, raised |-> FALSE,
                   disk |-> [d EXCEPT
                       !.canon = Absent,
                       !.backups = Put(d.backups, backup_name, d.canon),
                       !.backed_up = @ \cup {d.canon},
                       !.saver = Renamed(d.saver, "canon", "gone")]]

\* save_sessions, line 179: open(temp_file, 'w')
save_open(d, p) ==
    [d EXCEPT !.tmp = Json(SavedBy(p), 0),
              !.saver[p] = [pc |-> "write", fd |-> "tmp", n |-> 0]]

\* what one write of p leaves in the file its descriptor names
Written(content, p, n) ==
    IF content = Json(SavedBy(p), n) THEN Json(SavedBy(p), n + 1) ELSE Garbage(0)

\* save_sessions, line 180: one write of json.dump; the file is closed
\* after the last one
save_write(d, p) ==
    LET me == d.saver[p]
        next == [me EXCEPT !.n = @ + 1,
                           !.pc = IF me.n + 1 = Chunks THEN "replace" ELSE "write"]
    IN  CASE me.fd = "tmp" ->
                [d EXCEPT !.tmp = Written(d.tmp, p, me.n), !.saver[p] = next]
          [] me.fd = "canon" ->
                [d EXCEPT !.canon = Written(d.canon, p, me.n), !.saver[p] = next]
          [] OTHER -> [d EXCEPT !.saver[p] = next]

\* save_sessions, lines 183-185: os.replace(temp_file, SESSIONS_FILE); an
\* IOError is logged
save_replace(d, p) ==
    IF d.tmp.kind = "absent"
    THEN [d EXCEPT !.saver[p] = IdleSaver]
    ELSE [d EXCEPT !.canon = d.tmp, !.tmp = Absent,
                   !.saver = [Renamed(d.saver, "tmp", "canon") EXCEPT ![p] = IdleSaver]]

------------------------------------------------------------------------------
(* Policy calls under way.  A call of check_user_rate_limit or             *)
(* validate_session loads the mapping, works on its copy, and saves the    *)
(* copy; `sessions` and `current_time` are its local variables.            *)

Callers == {"A", "B", "W"}

\* A and B check a transfer of u1; W validates the session of u2
CallOf(p) ==
    IF p = "W" THEN [fn |-> "validate_session", user |-> "u2"]
    ELSE [fn |-> "check_user_rate_limit", user |-> "u1"]

IdleCall == [pc |-> "idle", sessions |-> << >>, current_time |-> 0, ok |-> FALSE]

\* admitted: the transaction checks that returned True; started: the calls
\* made so far
NoCalls == [call |-> [p \in Callers |-> IdleCall], admitted |-> 0, started |-> 0]

------------------------------------------------------------------------------
(* The program                                                             *)

NoProbe == [fn |-> "none"]

Init ==
    /\ user_data = [u \in Users |-> EmptyData]
    /\ sessions = << >>
    /\ clock = 0
    /\ submitted = [u \in Users |-> 0]
    /\ last = NoEvent
    /\ probe = NoProbe
    /\ disk = NoDisk
    /\ running = NoCalls

\* one context for all users
Handle_shared(u, in) ==
    LET w == handle_message(
                [data |-> user_data[u], sessions |-> sessions,
                 submitted |-> submitted[u], ev |-> Event(u)],
                u, in, clock)
    IN  /\ user_data' = [k \in DOMAIN user_data |-> w.data]
        /\ sessions' = w.sessions
        /\ submitted' = [submitted EXCEPT ![u] = w.submitted]
        /\ last' = w.ev
        /\ UNCHANGED <<clock, probe, disk, running>>

\* One message of user u, handled by handle_message from start to end.
Handle(u, in) ==
    LET w == handle_message(
                [data |-> user_data[u], sessions |-> sessions,
                 submitted |-> submitted[u], ev |-> Event(u)],
                u, in, clock)
    IN  /\ user_data' = [user_data EXCEPT ![u] = w.data]
        /\ sessions' = w.sessions
        /\ submitted' = [submitted EXCEPT ![u] = w.submitted]
        /\ last' = w.ev
        /\ UNCHANGED <<clock, probe, disk, running>>

MessageIdle(u) ==
    /\ user_data[u].state = "none"
    /\ \E c \in IdleCases :
          \E build \in (IF c.intent \in {"send_algo", "create_nft"}
                        THEN BuildAnswers ELSE {"raise"}),
             account \in (IF c.intent = "balance" THEN BOOLEAN ELSE {FALSE}) :
             Handle(u, In(c.text, c.reply, build, FALSE, FALSE, FALSE, "raise", account))

MessageCreatingWallet(u) ==
    /\ user_data[u].state = "creating_wallet"
    /\ \E text \in StateTexts, wallet \in WalletAnswers :
          Handle(u, In(text, ReplyError, "raise", FALSE, FALSE, FALSE, wallet, FALSE))

MessageConnectingWallet(u) ==
    /\ user_data[u].state = "connecting_wallet"
    /\ \E text \in StateTexts :
          Handle(u, In(text, ReplyError, "raise", FALSE, FALSE, FALSE, "raise", FALSE))

MessageConnectingPassword(u) ==
    /\ user_data[u].state = "connecting_password"
    /\ \E text \in StateTexts, wallet \in WalletAnswers :
          Handle(u, In(text, ReplyError, "raise", FALSE, FALSE, FALSE, wallet, FALSE))

MessageTransactionPassword(u) ==
    /\ user_data[u].state = "transaction_password"
    /\ \E text \in StateTexts, a \in SigningAnswers :
          Handle(u, In(text, ReplyError, "raise", a.sign, a.submit, a.wait, "raise", FALSE))

\* Time passes between two messages.
Elapse(d) ==
    /\ clock < MaxClock
    /\ clock' = clock + d
    /\ last' = NoEvent
    /\ probe' = NoProbe
    /\ UNCHANGED <<user_data, sessions, submitted, disk, running>>

\* longer than a session lasts
Tick == Elapse(SessionTimeout + 1)

Next ==
    \/ \E u \in Users : MessageIdle(u)
    \/ \E u \in Users : MessageCreatingWallet(u)
    \/ \E u \in Users : MessageConnectingWallet(u)
    \/ \E u \in Users : MessageConnectingPassword(u)
    \/ \E u \in Users : MessageTransactionPassword(u)
    \/ Tick

Spec == Init /\ [][Next]_vars

------------------------------------------------------------------------------
(* The session and rate policy on its own: check_user_rate_limit and       *)
(* validate_session called directly on a store that holds the sessions of  *)
(* two users, with the clock moving by one tick or by the session timeout. *)

StoreUsers == Users \cup {"u2"}

InitPolicy ==
    /\ user_data = [u \in Users |-> EmptyData]
    /\ sessions = [u \in StoreUsers |-> Session(WalletData("ADDR1"), 0)]
    /\ clock = 0
    /\ submitted = [u \in Users |-> 0]
    /\ last = NoEvent
    /\ probe = NoProbe
    /\ disk = NoDisk
    /\ running = NoCalls

CallCheckRateLimit(u, action_type) ==
    LET r == check_user_rate_limit(sessions, u, action_type, clock)
    IN  /\ sessions' = r.sessions
        /\ probe' = [fn |-> "check_user_rate_limit", user |-> u,
                     action_type |-> action_type, ok |-> r.ok]
        /\ UNCHANGED <<user_data, clock, submitted, last, disk, running>>

CallValidateSession(u) ==
    LET r == validate_session(sessions, u, clock)
    IN  /\ sessions' = r.sessions
        /\ probe' = [fn |-> "validate_session", user |-> u,
                     action_type |-> "none", ok |-> r.ok]
        /\ UNCHANGED <<user_data, clock, submitted, last, disk, running>>

PolicyTick == \E d \in {1, SessionTimeout} : Elapse(d)

NextPolicy ==
    \/ \E u \in Users, action_type \in {"transaction", "general"} :
          CallCheckRateLimit(u, action_type)
    \/ \E u \in Users : CallValidateSession(u)
    \/ PolicyTick

SpecPolicy == InitPolicy /\ [][NextPolicy]_vars

\* the entries of a list that are less than one hour old
LessThanAnHourOld(list, now) ==
    SelectSeq(list, LAMBDA t : now - t < RATE_WINDOW_HOURS * TicksPerHour)

\* C5: a transaction check on a session with 10 entries inside the last
\* hour returns false and leaves the stored list unchanged; with fewer than
\* 10 it returns true and the stored list becomes the entries inside the
\* last hour followed by the current time.
C5_RateLimitCountsTheLastHour ==
    [][\A u \in Users :
          (/\ probe'.fn = "check_user_rate_limit"
           /\ probe'.user = u
           /\ probe'.action_type = "transaction"
           /\ u \in DOMAIN sessions) =>
             LET kept == LessThanAnHourOld(sessions[u].recent_transactions, clock)
             IN  /\ Len(kept) <= MAX_TRANSACTIONS_PER_HOUR
                 /\ Len(kept) = MAX_TRANSACTIONS_PER_HOUR =>
                       /\ ~probe'.ok
                       /\ sessions' = sessions
                 /\ Len(kept) < MAX_TRANSACTIONS_PER_HOUR =>
                       /\ probe'.ok
                       /\ sessions' = [sessions EXCEPT ![u].recent_transactions =
                                                          Append(kept, clock)]]_vars

\* the eleventh transaction of an hour was refused
C5_Witness ==
    /\ probe.fn = "check_user_rate_limit"
    /\ probe.action_type = "transaction"
    /\ ~probe.ok
    /\ Len(sessions[probe.user].recent_transactions) = MAX_TRANSACTIONS_PER_HOUR

\* C6: validate_session returns false and changes nothing for a user
\* without a session; returns false and removes the user's session when the
\* last activity is more than 24 hours ago; otherwise returns true and sets
\* the last activity to now, the other fields staying as they were.
C6_ValidateSessionExpiresAndRefreshes ==
    [][\A u \in Users :
          (probe'.fn = "validate_session" /\ probe'.user = u) =>
             IF u \notin DOMAIN sessions
             THEN ~probe'.ok /\ sessions' = sessions
             ELSE IF clock - sessions[u].last_activity >
                        SESSION_TIMEOUT_HOURS * TicksPerHour
             THEN /\ ~probe'.ok
                  /\ DOMAIN sessions' = DOMAIN sessions \ {u}
                  /\ \A k \in DOMAIN sessions' : sessions'[k] = sessions[k]
             ELSE /\ probe'.ok
                  /\ DOMAIN sessions' = DOMAIN sessions
                  /\ \A k \in DOMAIN sessions \ {u} : sessions'[k] = sessions[k]
                  /\ sessions'[u] = [sessions[u] EXCEPT !.last_activity = clock]]_vars

\* an expired session was removed and the other user's session kept
C6_Witness ==
    /\ probe.fn = "validate_session"
    /\ ~probe.ok
    /\ probe.user \notin DOMAIN sessions
    /\ DOMAIN sessions # {}

------------------------------------------------------------------------------
(* Intent resolution on its own: the chain of handle_message applied once  *)
(* to a reply of the language-understanding collaborator and a message     *)
(* text.                                                                   *)

\* the characters tried at either end of an address: the ends of A-Z and
\* 2-7, a lower-case letter, and the digits next to 2-7
AddressChars == {"Z", "2", "7", "a", "1", "8"}
AddressLengths == (ADDRESS_LENGTH - 1)..MaxAddrLen

AddressTexts ==
    {ShortAddress}
    \cup {Rep("A", n) : n \in AddressLengths}
    \cup {<<Run(c, 1), Run("A", n - 1)>> : c \in AddressChars, n \in AddressLengths}
    \cup {<<Run("A", n - 1), Run(c, 1)>> : c \in AddressChars, n \in AddressLengths}

SendTexts ==
    {SendText(verb, amount, address) :
        verb \in SendVerbs, amount \in AmountTexts, address \in AddressTexts}

ChainReplies == Replies \cup {ReplyUndecodable}
ChainTexts == IdleTexts \cup {NftText(NoName)}

CallResolve(reply, text) ==
    LET chain == Chain(reply, sanitize_input(text))
    IN  /\ probe = NoProbe
        /\ probe' = [fn |-> "resolve", reply |-> reply, text |-> text,
                     ai |-> AiResult(parse(reply)),
                     stages |-> chain.stages, parsed |-> chain.parsed]
        /\ UNCHANGED <<user_data, sessions, clock, submitted, last, disk, running>>

\* a transfer text with the collaborator unavailable
ResolveOffline == \E text \in SendTexts : CallResolve(ReplyError, text)

\* any reply with a text of each shape
ResolveOnline == \E reply \in ChainReplies, text \in ChainTexts : CallResolve(reply, text)

NextIntent == ResolveOffline \/ ResolveOnline

SpecIntent == Init /\ [][NextIntent]_vars

\* The chain is ordered and the first success wins, the fallback matchers
\* running exactly after the language-understanding results in `unresolved`.
OrderedChain(unresolved) ==
    probe.fn = "resolve" =>
       LET text == sanitize_input(probe.text)
           ai == parse(probe.reply)
           nft == parse_nft_command_fallback(text)
           send == parse_send_command_fallback(text)
       IN  /\ probe.stages \in {<<"ai">>, <<"ai", "nft">>, <<"ai", "nft", "send">>}
           /\ Len(probe.stages) > 1 <=> probe.ai \in unresolved
           /\ probe.stages = <<"ai">> => probe.parsed = ai
           /\ probe.stages = <<"ai", "nft">> => ~Falsy(nft) /\ probe.parsed = nft
           /\ probe.stages = <<"ai", "nft", "send">> =>
                 Falsy(nft) /\ probe.parsed = send
           /\ probe.ai \notin unresolved => probe.parsed = ai

\* C8 as stated: the fallback matchers run if and only if the
\* language-understanding stage returned nothing, raised, or returned intent
\* unknown; the token matcher is tried before the transfer matcher, which
\* runs only when the token matcher found nothing; any other result of the
\* language-understanding stage is never replaced.
C8_FallbackOnlyAfterNothingOrUnknown == OrderedChain({"None", "unknown"})

\* C8: the fallback matchers run if and only if the language-understanding
\* stage returned nothing, raised, returned an empty object, or returned
\* intent unknown; the token matcher is tried before the transfer matcher,
\* which runs only when the token matcher found nothing; any other result
\* of the language-understanding stage is never replaced.
C8_FallbackAfterNothingEmptyOrUnknown == OrderedChain({"None", "empty", "unknown"})

\* an empty object was replaced by the transfer matcher's result
C8_Witness ==
    /\ probe.fn = "resolve"
    /\ probe.ai = "empty"
    /\ probe.stages = <<"ai", "nft", "send">>
    /\ probe.parsed.intent = "send_algo"

\* the number an amount text denotes
Denoted(amount_text) ==
    CASE amount_text = "5" -> Num(5)
      [] amount_text = "five" -> Num(5)
      [] amount_text = "0" -> Num(0)
      [] amount_text = "-1" -> Num(0 - 1)
      [] amount_text = "1000000" -> Num(1000000)
      [] amount_text = "1000001" -> Num(1000001)
      [] OTHER -> NoAmount

\* C9: with the language-understanding collaborator unavailable, a message
\* "<send|transfer|pay> <amount> algo to <address>" resolves to the transfer
\* intent with that amount and recipient if and only if the address has
\* exactly 58 characters, all in A-Z2-7, and 0 < amount <= 1000000;
\* otherwise it resolves to no intent.
C9_TransferTextResolvesIffValid ==
    (/\ probe.fn = "resolve"
     /\ probe.reply = ReplyError
     /\ probe.text.shape \in SendVerbs) =>
        LET address == probe.text.address
            amount == Denoted(probe.text.amount)
        IN  IF /\ StrLen(address) = 58
               /\ AllIn(address, Base32)
               /\ amount.kind = "num" /\ 0 < amount.v /\ amount.v <= 1000000
            THEN probe.parsed = Dict("send_algo", Params(amount, address, NoName))
            ELSE Falsy(probe.parsed)

------------------------------------------------------------------------------
(* The session store on its own: two handlers saving step by step, loads  *)
(* and crashes of the process (SpecStore); and the saves and loads of one  *)
(* handler at a time, with damage done to the canonical file and seconds   *)
(* passing (SpecRecovery).                                                 *)

StoreStep(d) ==
    /\ disk' = d
    /\ UNCHANGED <<user_data, sessions, clock, submitted, last, probe, running>>

SaveOpen(p) ==
    /\ disk.saver[p].pc = "idle"
    /\ StoreStep(save_open(disk, p))

SaveWrite(p) ==
    /\ disk.saver[p].pc = "write"
    /\ StoreStep(save_write(disk, p))

SaveReplace(p) ==
    /\ disk.saver[p].pc = "replace"
    /\ StoreStep(save_replace(disk, p))

\* the process dies: the saves under way are never finished
Crash ==
    /\ \E p \in Savers : disk.saver[p].pc # "idle"
    /\ StoreStep([disk EXCEPT !.saver = [p \in Savers |-> IdleSaver]])

Load ==
    \E rename \in {"replaced", "FileExistsError"} :
        LET r == load_sessions(disk, rename)
        IN  /\ disk' = r.disk
            /\ probe' = [fn |-> "load_sessions", observed |-> disk.canon,
                         result |-> r.result, raised |-> r.raised]
            /\ UNCHANGED <<user_data, sessions, clock, submitted, last, running>>

\* the canonical file is damaged from outside
Corrupt ==
    /\ disk.corruptions < MaxCorruptions
    /\ disk.canon.kind # "absent"
    /\ StoreStep([disk EXCEPT !.canon = Garbage(disk.corruptions + 1),
                              !.corruptions = @ + 1])

Second ==
    /\ disk.second < MaxSecond
    /\ StoreStep([disk EXCEPT !.second = @ + 1])

\* handlers running side by side
NextStore ==
    \/ \E p \in Savers : SaveOpen(p)
    \/ \E p \in Savers : SaveWrite(p)
    \/ \E p \in Savers : SaveReplace(p)
    \/ Crash
    \/ Load

SpecStore == Init /\ [][NextStore]_vars

\* One handler at a time, as one event loop runs them: a save or a load
\* starts when no save is under way.
NoSaveUnderWay == \A p \in Savers : disk.saver[p].pc = "idle"

NextRecovery ==
    \/ \E p \in Savers : NoSaveUnderWay /\ SaveOpen(p)
    \/ \E p \in Savers : SaveWrite(p)
    \/ \E p \in Savers : SaveReplace(p)
    \/ Crash
    \/ NoSaveUnderWay /\ Load
    \/ Corrupt
    \/ Second

SpecRecovery == Init /\ [][NextRecovery]_vars

\* C11: a load of a store file with invalid content returns an empty
\* mapping, and every content moved to a backup path stays under a backup
\* path, whatever loads, saves and recoveries follow.
C11_CorruptedContentPreserved ==
    /\ (/\ probe.fn = "load_sessions"
        /\ probe.observed.kind # "absent"
        /\ ~Decodable(probe.observed)) =>
          /\ ~probe.raised
          /\ probe.result = << >>
    /\ \A content \in disk.backed_up :
          \E name \in DOMAIN disk.backups : disk.backups[name] = content

------------------------------------------------------------------------------
(* Properties of the confirmation protocol and of message routing          *)

HasPending(data) == data.pending_txn # NoTxn /\ data.pending_txn # EmptyTxn

\* the step is a message of u handled by handle_transaction_password with a
\* pending transaction
PasswordStep(u) ==
    /\ user_data[u].state = "transaction_password"
    /\ HasPending(user_data[u])
    /\ last'.user = u
    /\ last'.handler = "transaction_password"

\* C1: from TRANSACTION_PASSWORD with a pending transaction, a message
\* whose signing fails keeps the state and the pending transaction and
\* reports 2 then 1 attempts remaining, the third such failure leaving the
\* context cleared in IDLE; a message whose password signs on the first or
\* second attempt submits the transaction and leaves the context cleared in
\* IDLE.
C1_AttemptsLimitedAndSuccessResets ==
    [][\A u \in Users : PasswordStep(u) =>
          LET pre == user_data[u]
              post == user_data'[u]
          IN  /\ (last'.signed # NoTxn /\ ~last'.sign_ok) =>
                    IF pre.failed_attempts = MAX_PASSWORD_ATTEMPTS - 1
                    THEN post = EmptyData
                    ELSE /\ post.state = "transaction_password"
                         /\ post.pending_txn = pre.pending_txn
                         /\ post.failed_attempts = pre.failed_attempts + 1
                         /\ last'.attempts_left =
                               MAX_PASSWORD_ATTEMPTS - 1 - pre.failed_attempts
              /\ (last'.sign_ok /\ pre.failed_attempts \in {0, 1}) =>
                    /\ "send_transaction" \in last'.calls
                    /\ post = EmptyData]_vars

\* C2: for every handle stored as pending transaction, send_transaction
\* succeeds at most once, over any sequence of messages.
C2_SubmittedAtMostOnce == \A u \in Users : submitted[u] <= 1

\* C3: every handle given to the signing collaborator comes from a build
\* call of the same user made after intent resolution and a passed session
\* validation, for a transfer with a valid recipient and an amount in
\* range; and no build call is made for a transfer whose recipient or
\* amount is invalid.
C3_SignedAndBuiltOnlyAfterValidation ==
    /\ last.signed # NoTxn =>
          /\ last.signed.user = last.user
          /\ last.signed.session_ok
          /\ last.signed.recipient_ok
          /\ last.signed.amount_ok
    /\ last.build.kind = "send" =>
          /\ last.build.recipient_ok
          /\ last.build.amount_ok

NonIdleStates ==
    {"creating_wallet", "connecting_wallet", "connecting_password",
     "transaction_password"}

\* C4: in a non-idle state the next non-empty message of the user is handed
\* to that state's handler; no stage of the intent resolution chain runs and
\* no intent is dispatched.
C4_NonIdleBypassesResolution ==
    [][\A u \in Users :
          (/\ user_data[u].state \in NonIdleStates
           /\ last'.user = u
           /\ last'.reply # "invalid_input") =>
             /\ last'.handler = user_data[u].state
             /\ last'.stages = << >>
             /\ last'.ai = "none"
             /\ last'.intent = "none"
             /\ last'.build = NoTxn]_vars

\* a mnemonic handler answered a message in CONNECTING_WALLET
C4_Witness ==
    /\ last.handler = "connecting_wallet"
    /\ last.reply = "invalid_mnemonic"
    /\ last.stages = << >>

\* C7: a message handled in IDLE for which every stage of the chain ran and
\* none found an intent is answered as not understood: nothing is
\* dispatched, no collaborator is called, and the conversation context and
\* the session store stay as they were.
C7_UnresolvedDispatchesNothing ==
    [][\A u \in Users :
          (/\ last'.user = u
           /\ last'.stages = <<"ai", "nft", "send">>
           /\ ~last'.found) =>
             /\ last'.reply = "not_understood"
             /\ last'.intent = "none"
             /\ last'.calls = {}
             /\ last'.build = NoTxn
             /\ user_data' = user_data
             /\ sessions' = sessions]_vars

\* not understood, for a user who has a session
C7_Witness ==
    /\ last.reply = "not_understood"
    /\ last.stages = <<"ai", "nft", "send">>
    /\ last.ai \in {"None", "unknown"}
    /\ last.user \in DOMAIN sessions

\* C10: for a user with no session, a message resolved to balance, transfer
\* or token issuance is answered with "connect a wallet first"; no
\* collaborator is called, the context stays IDLE and the session store is
\* unchanged.
C10_NoSessionNoCalls ==
    [][\A u \in Users :
          (/\ u \notin DOMAIN sessions
           /\ last'.user = u
           /\ last'.intent \in {"balance", "send_algo", "create_nft"}) =>
             /\ last'.reply = "connect_wallet_first"
             /\ last'.calls = {}
             /\ last'.build = NoTxn
             /\ last'.signed = NoTxn
             /\ user_data'[u].state = "none"
             /\ user_data' = user_data
             /\ sessions' = sessions]_vars

\* a transfer asked for before any wallet was created or connected
C10_Witness ==
    /\ last.intent = "send_algo"
    /\ last.reply = "connect_wallet_first"
    /\ sessions = << >>
    /\ clock = 0

------------------------------------------------------------------------------
(* The wallet flows on their own: creating, connecting and disconnecting a *)
(* wallet, with three addresses the wallet collaborator may answer.        *)

WalletAddresses == {"ADDR1", "ADDR2", "ADDR3"}

WalletReplies ==
    {ReplyObject(Dict(i, NoParams)) :
        i \in {"create_wallet", "connect_wallet", "disconnect", "balance"}}

WalletIdle(u) ==
    /\ user_data[u].state = "none"
    /\ \E reply \in WalletReplies :
          Handle(u, In(OtherText, reply, "raise", FALSE, FALSE, FALSE, "raise", TRUE))

WalletFlow(u) ==
    /\ user_data[u].state # "none"
    /\ \E text \in {OtherText, WeakPassword, MnemonicText},
          wallet \in {"raise"} \cup WalletAddresses :
          Handle(u, In(text, ReplyError, "raise", FALSE, FALSE, FALSE, wallet, FALSE))

NextWallet ==
    \/ \E u \in Users : WalletIdle(u)
    \/ \E u \in Users : WalletFlow(u)
    \/ Tick

SpecWallet == Init /\ [][NextWallet]_vars

\* C15: as long as a user's session exists, its address is the one written
\* when the session was created; a create_wallet or connect_wallet flow
\* completed by a user who has a session does not change it.
C15_AddressImmutable ==
    [][\A u \in Users :
          (u \in DOMAIN sessions /\ u \in DOMAIN sessions') =>
             sessions'[u].address = sessions[u].address]_vars

------------------------------------------------------------------------------
(* Two users at once.  Both have a wallet and have made all but two of the *)
(* transfers an hour allows; each asks for transfers and token issuances   *)
(* and answers the password prompt, in any order.                          *)

BusySession ==
    [Session(WalletData("ADDR1"), 0) EXCEPT
        !.recent_transactions = [i \in 1..(MAX_TRANSACTIONS_PER_HOUR - 2) |-> 0]]

InitPair ==
    /\ user_data = [u \in StoreUsers |-> EmptyData]
    /\ sessions = [u \in StoreUsers |-> BusySession]
    /\ clock = 0
    /\ submitted = [u \in StoreUsers |-> 0]
    /\ last = NoEvent
    /\ probe = NoProbe
    /\ disk = NoDisk
    /\ running = NoCalls

PairIdle(u) ==
    /\ user_data[u].state = "none"
    /\ \E text \in {OtherText, NftText(DragonName), SendText("send", "5", ValidAddress)},
          build \in {"raise", "awaiting_approval"} :
          Handle(u, In(text, ReplyError, build, FALSE, FALSE, FALSE, "raise", FALSE))

PairPassword(u) ==
    /\ user_data[u].state = "transaction_password"
    /\ \E a \in SigningAnswers :
          Handle(u, In(OtherText, ReplyError, "raise", a.sign, a.submit, a.wait,
                       "raise", FALSE))

NextPair ==
    \/ \E u \in StoreUsers : PairIdle(u)
    \/ \E u \in StoreUsers : PairPassword(u)

SpecPair == InitPair /\ [][NextPair]_vars

\* C18: handling a message of one user leaves every other user's context
\* unchanged, and the handle signed in response to a message is the pending
\* transaction of the sender, built for the sender.
C18_ContextsNotShared ==
    [][\A a \in StoreUsers :
          last'.user = a =>
             /\ \A b \in StoreUsers \ {a} : user_data'[b] = user_data[b]
             /\ last'.signed # NoTxn =>
                   /\ last'.signed = user_data[a].pending_txn
                   /\ last'.signed.user = a]_vars

\* a message of u1 was signed while u2 had a pending transaction of its own
C18_Witness ==
    /\ last.user = "u1"
    /\ last.signed # NoTxn
    /\ last.signed.user = "u1"
    /\ HasPending(user_data["u2"])
    /\ user_data["u2"].pending_txn.user = "u2"

------------------------------------------------------------------------------
(* Properties of the attempt counter, the transaction log and the context  *)

\* the message was refused by the validation of a non-idle state
FailedValidation(ev) ==
    \/ ev.handler = "creating_wallet" /\
          ev.reply \in {"password_too_short", "password_needs_letters_and_numbers"}
    \/ ev.handler = "connecting_wallet" /\ ev.reply = "invalid_mnemonic"
    \/ ev.handler = "transaction_password" /\ ev.signed # NoTxn /\ ~ev.sign_ok

\* the failure is counted: the state is kept with one more failed attempt,
\* or the context is back in IDLE when that makes three
Counted(pre, post) ==
    IF pre.failed_attempts + 1 >= MAX_PASSWORD_ATTEMPTS
    THEN post.state = "none"
    ELSE /\ post.state = pre.state
         /\ post.failed_attempts = pre.failed_attempts + 1

\* C13: in every non-idle state an input that fails validation keeps the
\* state and adds 1 to failedAttempts, and the context is forced to IDLE
\* once failedAttempts reaches 3.
C13_ValidationFailuresCounted ==
    [][\A u \in Users :
          (last'.user = u /\ FailedValidation(last')) =>
             Counted(user_data[u], user_data'[u])]_vars

\* C14: a connect_wallet failure in CONNECTING_PASSWORD is counted toward
\* failedAttempts and keeps the state and the captured mnemonic; the
\* context is cleared only when failedAttempts reaches 3.
C14_ConnectFailureCounted ==
    [][\A u \in Users :
          (/\ last'.user = u
           /\ last'.handler = "connecting_password"
           /\ last'.reply = "wallet_connection_failed") =>
             /\ Counted(user_data[u], user_data'[u])
             /\ user_data'[u].state = "connecting_password" =>
                   user_data'[u].mnemonic = user_data[u].mnemonic]_vars

\* C16: a timestamp is appended to the session's list exactly when a
\* transfer or a token issuance of the user is handed to the ledger build
\* call.
C16_TimestampIffBuilt ==
    [][\A u \in Users :
          (last'.user = u /\ u \in DOMAIN sessions /\ u \in DOMAIN sessions') =>
             LET before == sessions[u].recent_transactions
                 after == sessions'[u].recent_transactions
                 appended ==
                    \E i \in 0..Len(before) :
                        after = Append(SubSeq(before, i + 1, Len(before)), clock)
             IN  appended <=> last'.build # NoTxn]_vars

\* C17: a reply of the language-understanding collaborator that is no
\* well-formed intent (no braces, an object without intent, an intent
\* outside the tag set) is treated as unknown: unless a fallback matcher
\* accepts the text, no error leaves message handling, no collaborator is
\* called and context and session store stay as they were.
C17_MalformedReplyIsUnknown ==
    [][\A u \in Users :
          (/\ last'.user = u
           /\ last'.ai \in {"unknown", "missing", "swap"}
           /\ ~(Len(last'.stages) > 1 /\ last'.found)) =>
             /\ ~last'.raised
             /\ last'.calls = {}
             /\ last'.build = NoTxn
             /\ user_data' = user_data
             /\ sessions' = sessions]_vars

\* C19: at every message boundary, for every user, pendingTransaction is
\* non-empty if and only if the state is TRANSACTION_PASSWORD.
C19_PendingIffTransactionPassword ==
    \A u \in Users :
        HasPending(user_data[u]) <=> user_data[u].state = "transaction_password"

\* C20: failedAttempts is zero whenever a context is IDLE and whenever a
\* non-idle state is entered.
C20_CounterClearedOnExit ==
    [][\A u \in Users :
          /\ user_data'[u].state = "none" => user_data'[u].failed_attempts = 0
          /\ (/\ user_data'[u].state # user_data[u].state
              /\ user_data'[u].state \in NonIdleStates) =>
                user_data'[u].failed_attempts = 0]_vars

\* a flow was ended by the third failure and left nothing behind
C20_Witness ==
    /\ last.reply = "too_many_failed_attempts"
    /\ user_data[last.user] = EmptyData

------------------------------------------------------------------------------
(* The operations on a stored session, called one after the other on a     *)
(* store that holds the sessions of two users: the two policy functions    *)
(* and the two handlers that write a session, for a user who has one.      *)

\* a session write of handler fn (handle_wallet_creation_password or
\* handle_connection_password) for user u, the wallet collaborator
\* answering `wallet`
CallWriteSession(fn, u, wallet) ==
    LET state == IF fn = "handle_wallet_creation_password"
                 THEN "creating_wallet" ELSE "connecting_password"
        w0 == [data |-> [EmptyData EXCEPT !.state = state], sessions |-> sessions,
               submitted |-> 0, ev |-> Event(u)]
        in == In(OtherText, ReplyError, "raise", FALSE, FALSE, FALSE, wallet, FALSE)
        w == IF fn = "handle_wallet_creation_password"
             THEN handle_wallet_creation_password(w0, u, OtherText, in, clock)
             ELSE handle_connection_password(w0, u, OtherText, in, clock)
    IN  /\ u \in DOMAIN sessions
        /\ sessions' = w.sessions
        /\ probe' = [fn |-> fn, user |-> u, action_type |-> "none",
                     ok |-> w.ev.reply \in {"wallet_created", "wallet_connected"}]
        /\ UNCHANGED <<user_data, clock, submitted, last, disk, running>>

CallCreateWallet(u) ==
    \E wallet \in WalletAnswers :
        CallWriteSession("handle_wallet_creation_password", u, wallet)

CallConnectWallet(u) ==
    \E wallet \in WalletAnswers :
        CallWriteSession("handle_connection_password", u, wallet)

NextActivity ==
    \/ \E u \in Users, action_type \in {"transaction", "general"} :
          CallCheckRateLimit(u, action_type)
    \/ \E u \in Users : CallValidateSession(u)
    \/ \E u \in Users : CallCreateWallet(u)
    \/ \E u \in Users : CallConnectWallet(u)
    \/ PolicyTick

SpecActivity == InitPolicy /\ [][NextActivity]_vars

\* C21: while a user's session exists, no operation on it (validate_session,
\* check_user_rate_limit, a wallet created or connected again) lowers its
\* last_activity, the clock never going back; and a validate_session call
\* that follows at once a successful one of the same user returns true and
\* leaves last_activity at or above the value the first left.
C21_LastActivityNeverDecreases ==
    [][/\ clock' >= clock =>
            \A u \in StoreUsers :
                (u \in DOMAIN sessions /\ u \in DOMAIN sessions') =>
                    sessions'[u].last_activity >= sessions[u].last_activity
       /\ (/\ probe.fn = "validate_session" /\ probe.ok
           /\ probe'.fn = "validate_session" /\ probe'.user = probe.user) =>
              /\ probe'.ok
              /\ probe.user \in DOMAIN sessions'
              /\ sessions'[probe.user].last_activity >=
                    sessions[probe.user].last_activity]_vars

\* a wallet was created or connected again, at a later time, by a user who
\* had a session
C21_Witness ==
    /\ probe.fn \in {"handle_wallet_creation_password", "handle_connection_password"}
    /\ probe.ok
    /\ clock > 0
    /\ sessions[probe.user].last_activity = clock
    /\ sessions[probe.user].created_at = clock

------------------------------------------------------------------------------
(* The policy functions step by step, with calls side by side: two         *)
(* transaction checks of u1 and a session validation of u2, on a store     *)
(* where u1 has made all but two of the transfers an hour allows.          *)

CallStep(p, call, ss, admitted) ==
    /\ running' = [running EXCEPT !.call[p] = call,
                                  !.admitted = @ + admitted,
                                  !.started = @ + (IF call.pc = "loaded" THEN 1 ELSE 0)]
    /\ sessions' = ss
    /\ UNCHANGED <<user_data, clock, submitted, last, probe, disk>>

\* lines 103-105 and 135: sessions = load_sessions(), current_time
CallLoad(p) ==
    /\ running.call[p].pc = "idle"
    /\ running.started < MaxCalls
    /\ CallStep(p, [pc |-> "loaded", sessions |-> sessions,
                    current_time |-> clock, ok |-> FALSE],
                sessions, 0)

\* lines 107-128 and 138-154: the work on the loaded mapping, up to the
\* return that comes without a save or to the call of save_sessions
CallDecide(p) ==
    LET me == running.call[p]
        c == CallOf(p)
        r == IF c.fn = "check_user_rate_limit"
             THEN check_user_rate_limit(me.sessions, c.user, "transaction",
                                        me.current_time)
             ELSE validate_session(me.sessions, c.user, me.current_time)
        saves == /\ c.user \in DOMAIN me.sessions
                 /\ c.fn = "check_user_rate_limit" => r.ok
    IN  /\ me.pc = "loaded"
        /\ IF saves
           THEN CallStep(p, [me EXCEPT !.pc = "save", !.sessions = r.sessions,
                                       !.ok = r.ok],
                         sessions, 0)
           ELSE CallStep(p, IdleCall, sessions,
                         IF c.fn = "check_user_rate_limit" /\ r.ok THEN 1 ELSE 0)

\* lines 129-131, 149-150 and 155-157: save_sessions(sessions) and the
\* return
CallSave(p) ==
    LET me == running.call[p]
    IN  /\ me.pc = "save"
        /\ CallStep(p, IdleCall, me.sessions,
                    IF CallOf(p).fn = "check_user_rate_limit" /\ me.ok THEN 1 ELSE 0)

InitRace ==
    /\ user_data = [u \in Users |-> EmptyData]
    /\ sessions = [u \in StoreUsers |-> BusySession]
    /\ clock = 0
    /\ submitted = [u \in Users |-> 0]
    /\ last = NoEvent
    /\ probe = NoProbe
    /\ disk = NoDisk
    /\ running = [NoCalls EXCEPT !.admitted = Len(BusySession.recent_transactions)]

NextRace ==
    \/ \E p \in Callers : CallLoad(p)
    \/ \E p \in Callers : CallDecide(p)
    \/ \E p \in Callers : CallSave(p)

SpecRace == InitRace /\ [][NextRace]_vars

------------------------------------------------------------------------------
(* One user's messages inside one hour: transfers, and wallets created,    *)
(* connected and disconnected between them.  running.admitted counts the   *)
(* user's transfer requests that passed the transaction rate check.        *)

\* One message of user u, handled by handle_message from start to end.
HourHandle(u, in) ==
    LET w == handle_message(
                [data |-> user_data[u], sessions |-> sessions,
                 submitted |-> submitted[u], ev |-> Event(u)],
                u, in, clock)
        passed == /\ w.ev.intent = "send_algo"
                  /\ w.ev.reply \notin {"connect_wallet_first",
                                        "transaction_rate_limit_exceeded"}
    IN  /\ user_data' = [user_data EXCEPT ![u] = w.data]
        /\ sessions' = w.sessions
        /\ submitted' = [submitted EXCEPT ![u] = w.submitted]
        /\ last' = w.ev
        /\ running' = [running EXCEPT !.admitted = @ + (IF passed THEN 1 ELSE 0)]
        /\ UNCHANGED <<clock, probe, disk>>

HourTransfer(u) ==
    /\ user_data[u].state = "none"
    /\ running.admitted < MaxAdmitted
    /\ \E build \in {"raise", "immediate"} :
          HourHandle(u, In(SendText("send", "5", ValidAddress), ReplyError, build,
                           FALSE, FALSE, FALSE, "raise", FALSE))

HourWallet(u) ==
    /\ user_data[u].state = "none"
    /\ \E i \in {"create_wallet", "connect_wallet", "disconnect"} :
          HourHandle(u, In(OtherText, ReplyObject(Dict(i, NoParams)), "raise",
                           FALSE, FALSE, FALSE, "raise", FALSE))

HourFlow(u) ==
    /\ user_data[u].state # "none"
    /\ \E text \in {OtherText, MnemonicText}, wallet \in WalletAnswers :
          HourHandle(u, In(text, ReplyError, "raise", FALSE, FALSE, FALSE, wallet, FALSE))

HourTick == Elapse(1)

NextHour ==
    \/ \E u \in Users : HourTransfer(u)
    \/ \E u \in Users : HourWallet(u)
    \/ \E u \in Users : HourFlow(u)
    \/ HourTick

SpecHour == Init /\ [][NextHour]_vars

\* C23: whatever messages the user sends (wallets disconnected, created or
\* connected again between the transfers), at most 10 of the user's
\* transfer requests pass the transaction rate check inside one hour.
C23_AtMostTenTransfersAnHour ==
    clock < RATE_WINDOW_HOURS * TicksPerHour =>
        running.admitted <= MAX_TRANSACTIONS_PER_HOUR

------------------------------------------------------------------------------
(* Properties of the session at the time of signing and of the captured    *)
(* mnemonic                                                                *)

\* C24: a pending transaction is given to sign_transaction or to
\* send_transaction only by a password message of a user whose session
\* exists and whose last activity is no more than 24 hours before that
\* message.
C24_SignedOnlyWithLiveSession ==
    [][\A u \in Users :
          (/\ last'.user = u
           /\ last'.calls \cap {"sign_transaction", "send_transaction"} # {}) =>
             /\ u \in DOMAIN sessions
             /\ clock - sessions[u].last_activity <=
                   SESSION_TIMEOUT_HOURS * TicksPerHour]_vars

\* C25: at every message boundary a user's context holds a mnemonic if and
\* only if its state is connecting_password; every exit from that state,
\* by a connection that succeeded or failed, leaves the context without it.
C25_MnemonicOnlyWhileConnecting ==
    \A u \in Users :
        user_data[u].mnemonic # NoText <=> user_data[u].state = "connecting_password"

\* a connection failed after a mnemonic had been captured, and the context
\* was left without it
C25_Witness ==
    /\ last.handler = "connecting_password"
    /\ last.reply = "wallet_connection_failed"
    /\ "connect_wallet" \in last.calls
    /\ user_data[last.user].state = "none"
    /\ user_data[last.user].mnemonic = NoText

====
